---- MODULE Spec2Model ----
(***************************************************************************)
(* State-machine model of BaseSimulator (src/BaseSimulator.py): the node  *)
(* registry, the event dispatch, the computational (worker) thread with   *)
(* its cadence loop, and the UI thread that runs the handlers and the     *)
(* closures posted with post_to_main_thread.                              *)
(*                                                                         *)
(* The UI thread executes one handler at a time (the record ui); the      *)
(* worker threads interleave with it statement by statement.  A loop of   *)
(* a handler that only reads the registry and calls node hooks is one     *)
(* step: the registry is touched by the UI thread alone.  Time is a       *)
(* global integer clock read by time.time().                              *)
(***************************************************************************)
EXTENDS Integers, Sequences, FiniteSets, TLC

\* ---------------------------------------------------------------- bounds
MaxLen == 2          \* register_node calls made at most
MaxThreads == 2      \* Thread objects start_computational_thread may create
MaxTime == 4         \* last clock value (time stops advancing there)

\* ------------------------------------------------------------- constants
animation_delay_time == 2    \* self.animation_delay_time = 2.0

\* the node objects of the application: two plain HeadlessNode objects and
\* one Nodes.VisualNode object
NodeIds == {"h1", "v1", "h2"}
IsVisual(n) == n = "v1"

\* the node whose start/pause hooks are recorded in lastCb
Observed == "h1"

ThreadIds == 0..MaxThreads   \* 0 is the Thread object built by __init__

HANDLED == "HANDLED"
IGNORED == "IGNORED"
\* what a node's on_mouse_3d / on_key returns
EventResults == {HANDLED, IGNORED}

VARIABLES
    nodes,          \* self._computational_nodes
    running,        \* self._running (threading.Event) is set
    threads,        \* state of every Thread object: none/unstarted/alive/dead
    curThread,      \* self._computational_thread
    nThreads,       \* Thread objects created by start_computational_thread
    lastAnim,       \* self._last_animation_time
    mainFinished,   \* self.main_thread_finished
    queue,          \* closures posted to the UI thread, not yet begun
    clock,          \* time.time()
    wpc,            \* per thread: position in _run_computational_loop
    wnow,           \* per thread: local variable now
    widx,           \* per thread: index of the for loop over the nodes
    wwake,          \* per thread: clock value at which time.sleep returns
    frameLog,       \* nodes stepped by the worker in the frame in progress
    lastFrame,      \* the last frame begun: its timestamp and its thread
    ui,             \* the handler the UI thread is executing
    lastCb          \* last computation-thread hook the observed node received
                    \* since it was registered

vars == <<nodes, running, threads, curThread, nThreads, lastAnim,
          mainFinished, queue, clock, wpc, wnow, widx, wwake, frameLog,
          lastFrame, ui, lastCb>>

wvars == <<wpc, wnow, widx, wwake, frameLog, lastFrame>>
schedvars == <<running, threads, curThread, nThreads>>

\* ------------------------------------------------------------- helpers
Range(s) == {s[i] : i \in 1..Len(s)}

Entry(hook, n, res) == [hook |-> hook, node |-> n, res |-> res]

Alive(t) == threads[t] = "alive"
AliveThreads == {t \in ThreadIds : Alive(t)}

\* the UI thread between two handlers
UiIdle ==
    [op |-> "idle",       \* handler being executed
     pc |-> "idle",       \* position inside it
     log |-> <<>>,        \* node hooks it has invoked so far
     result |-> "None",   \* value it returns
     list |-> <<>>,       \* list it returns (get_nodes)
     arg |-> "None",      \* its class argument (get_nodes)
     task |-> <<>>,       \* the posted closure being executed, if any
     wasRunning |-> FALSE,\* _running was set when it was entered
     joins |-> 0,         \* joins that returned inside it
     spawned |-> 0,       \* threads it started
     repeat |-> FALSE]    \* it was called again right after it returned

\* isinstance(node, cl): VisualNode derives from HeadlessNode
IsInstance(n, cl) == IF cl = "VisualNode" THEN IsVisual(n) ELSE TRUE

\* mutant of GetNodesFrom: a matching node is put in front of temp
RECURSIVE GetNodesPrepend(_, _, _, _)
GetNodesPrepend(ns, cl, i, temp) ==
    IF i > Len(ns) THEN temp
    ELSE GetNodesPrepend(ns, cl, i + 1,
                         IF IsInstance(ns[i], cl) THEN <<ns[i]>> \o temp
                         ELSE temp)

\* get_nodes: the loop that appends every matching node to temp
RECURSIVE GetNodesFrom(_, _, _, _)
GetNodesFrom(ns, cl, i, temp) ==
    IF i > Len(ns) THEN temp
    ELSE GetNodesFrom(ns, cl, i + 1,
                      IF IsInstance(ns[i], cl) THEN Append(temp, ns[i])
                      ELSE temp)

get_nodes(cl) == GetNodesFrom(nodes, cl, 1, <<>>)

\* for node in self._computational_nodes: node.<hook>()
RECURSIVE FanOutFrom(_, _, _, _)
FanOutFrom(ns, hook, i, log) ==
    IF i > Len(ns) THEN log
    ELSE FanOutFrom(ns, hook, i + 1, Append(log, Entry(hook, ns[i], "-")))

FanOut(hook) == FanOutFrom(nodes, hook, 1, <<>>)

\* ------------------------------------------------------------------ Init
Init ==
    /\ nodes = <<>>
    /\ running = FALSE
    /\ threads = [t \in ThreadIds |-> IF t = 0 THEN "unstarted" ELSE "none"]
    /\ curThread = 0
    /\ nThreads = 0
    /\ lastAnim = 0
    /\ mainFinished = TRUE
    /\ queue = <<>>
    /\ clock = animation_delay_time   \* time.time() is past the first deadline
    /\ wpc = [t \in ThreadIds |-> "none"]
    /\ wnow = [t \in ThreadIds |-> 0]
    /\ widx = [t \in ThreadIds |-> 0]
    /\ wwake = [t \in ThreadIds |-> 0]
    /\ frameLog = <<>>
    /\ lastFrame = <<>>
    /\ ui = UiIdle
    /\ lastCb = "none"

\* ------------------------------------------------------------------ time
Tick ==
    /\ clock < MaxTime
    /\ clock' = clock + 1
    /\ UNCHANGED <<nodes, schedvars, lastAnim, mainFinished, queue, wvars,
                   ui, lastCb>>

\* ------------------------------------------------- the computational thread
\* _run_computational_loop, one action per statement, for thread t

\* thread t leaves run(), by returning or by an uncaught exception
Finish(t) ==
    /\ threads' = [threads EXCEPT ![t] = "dead"]
    /\ wpc' = [wpc EXCEPT ![t] = "none"]
    /\ wnow' = [wnow EXCEPT ![t] = 0]
    /\ widx' = [widx EXCEPT ![t] = 0]
    /\ wwake' = [wwake EXCEPT ![t] = 0]

\* lines 180-181
WInit(t) ==
    /\ Alive(t) /\ wpc[t] = "init"
    /\ lastAnim' = 0
    /\ mainFinished' = TRUE
    /\ wpc' = [wpc EXCEPT ![t] = "loop"]
    /\ UNCHANGED <<nodes, schedvars, queue, clock, wnow, widx,
                   wwake, frameLog, lastFrame, ui, lastCb>>

\* line 182, loop entered
WLoopEnter(t) ==
    /\ Alive(t) /\ wpc[t] = "loop"
    /\ running
    /\ wpc' = [wpc EXCEPT ![t] = "now"]
    /\ UNCHANGED <<nodes, schedvars, lastAnim, mainFinished, queue,
                   clock, wnow, widx, wwake, frameLog, lastFrame,
                   ui, lastCb>>

\* line 182, loop left: the thread function returns
WLoopExit(t) ==
    /\ Alive(t) /\ wpc[t] = "loop"
    /\ ~running
    /\ Finish(t)
    /\ UNCHANGED <<nodes, running, curThread, nThreads, lastAnim,
                   mainFinished, queue, clock, frameLog,
                   lastFrame, ui, lastCb>>

\* line 183
WNow(t) ==
    /\ Alive(t) /\ wpc[t] = "now"
    /\ wnow' = [wnow EXCEPT ![t] = clock]
    /\ wpc' = [wpc EXCEPT ![t] = "check"]
    /\ UNCHANGED <<nodes, schedvars, lastAnim, mainFinished, queue,
                   clock, widx, wwake, frameLog, lastFrame,
                   ui, lastCb>>

\* the condition of line 184
FrameDue(t) ==
    mainFinished /\ wnow[t] >= lastAnim + animation_delay_time

\* lines 184-185, the frame branch
WBeginFrame(t) ==
    /\ Alive(t) /\ wpc[t] = "check"
    /\ FrameDue(t)
    /\ lastAnim' = wnow[t]
    /\ lastFrame' = <<[t |-> wnow[t], th |-> t]>>
    /\ frameLog' = <<>>
    /\ widx' = [widx EXCEPT ![t] = 1]
    /\ wpc' = [wpc EXCEPT ![t] = "headless"]
    /\ UNCHANGED <<nodes, schedvars, mainFinished, queue, clock, wnow, wwake, ui, lastCb>>

\* mutant of WStepHeadless: the worker steps every node, Visual ones too
WStepAll(t) ==
    /\ Alive(t) /\ wpc[t] = "headless"
    /\ widx[t] <= Len(nodes)
    /\ frameLog' = Append(frameLog, nodes[widx[t]])
    /\ widx' = [widx EXCEPT ![t] = widx[t] + 1]
    /\ UNCHANGED <<nodes, schedvars, lastAnim, mainFinished, queue,
                   clock, wpc, wnow, wwake, lastFrame, ui,
                   lastCb>>

\* lines 194-196, one iteration of the loop over the HeadlessNode-only nodes
WStepHeadless(t) ==
    /\ Alive(t) /\ wpc[t] = "headless"
    /\ widx[t] <= Len(nodes)
    /\ frameLog' = IF ~IsVisual(nodes[widx[t]])
                   THEN Append(frameLog, nodes[widx[t]])
                   ELSE frameLog
    /\ widx' = [widx EXCEPT ![t] = widx[t] + 1]
    /\ UNCHANGED <<nodes, schedvars, lastAnim, mainFinished, queue,
                   clock, wpc, wnow, wwake, lastFrame, ui,
                   lastCb>>

\* mutant of WMarkInFlight: the loop over the nodes is left before its end
WMarkInFlightEarly(t) ==
    /\ Alive(t) /\ wpc[t] = "headless"
    /\ mainFinished' = FALSE
    /\ wpc' = [wpc EXCEPT ![t] = "post"]
    /\ UNCHANGED <<nodes, schedvars, lastAnim, queue, clock,
                   wnow, widx, wwake, frameLog, lastFrame, ui, lastCb>>

\* mutant of WStepRaise: the closure of the frame is posted all the same
WStepRaisePosts(t) ==
    /\ Alive(t) /\ wpc[t] = "headless"
    /\ widx[t] <= Len(nodes)
    /\ ~IsVisual(nodes[widx[t]])
    /\ threads' = [threads EXCEPT ![t] = "dead"]
    /\ wpc' = [wpc EXCEPT ![t] = "raised"]
    /\ widx' = [widx EXCEPT ![t] = 0]
    /\ frameLog' = <<>>
    /\ queue' = Append(queue, [th |-> t, stamp |-> wnow[t]])
    /\ UNCHANGED <<nodes, running, curThread, nThreads, lastAnim,
                   mainFinished, clock, wnow, wwake, lastFrame, ui,
                   lastCb>>

\* line 196 when node.step() raises: nothing catches the exception, the
\* thread ends inside the frame (wnow keeps the frame's timestamp)
WStepRaise(t) ==
    /\ Alive(t) /\ wpc[t] = "headless"
    /\ widx[t] <= Len(nodes)
    /\ ~IsVisual(nodes[widx[t]])
    /\ threads' = [threads EXCEPT ![t] = "dead"]
    /\ wpc' = [wpc EXCEPT ![t] = "raised"]
    /\ widx' = [widx EXCEPT ![t] = 0]
    /\ frameLog' = <<>>
    /\ UNCHANGED <<nodes, running, curThread, nThreads, lastAnim,
                   mainFinished, queue, clock, wnow, wwake, lastFrame, ui,
                   lastCb>>

\* line 194 exhausted, line 198
WMarkInFlight(t) ==
    /\ Alive(t) /\ wpc[t] = "headless"
    /\ widx[t] > Len(nodes)
    /\ mainFinished' = FALSE
    /\ wpc' = [wpc EXCEPT ![t] = "post"]
    /\ UNCHANGED <<nodes, schedvars, lastAnim, queue, clock,
                   wnow, widx, wwake, frameLog, lastFrame, ui, lastCb>>

\* line 199: post_to_main_thread(self.window, display)
WPost(t) ==
    /\ Alive(t) /\ wpc[t] = "post"
    /\ queue' = Append(queue, [th |-> t, stamp |-> wnow[t]])
    /\ frameLog' = <<>>
    /\ wpc' = [wpc EXCEPT ![t] = "loop"]
    /\ UNCHANGED <<nodes, schedvars, lastAnim, mainFinished, clock, wnow, widx,
                   wwake, lastFrame, ui, lastCb>>

\* the argument of time.sleep on line 202
SleepArg(t) == wnow[t] - lastAnim - animation_delay_time

\* line 202 with a non-negative argument: the thread sleeps (the clock
\* stops at MaxTime, and a sleep that would outlast it ends there)
WSleep(t) ==
    /\ Alive(t) /\ wpc[t] = "check"
    /\ ~FrameDue(t)
    /\ SleepArg(t) >= 0
    /\ wwake' = [wwake EXCEPT ![t] = IF clock + SleepArg(t) > MaxTime
                                     THEN MaxTime
                                     ELSE clock + SleepArg(t)]
    /\ wpc' = [wpc EXCEPT ![t] = "sleeping"]
    /\ UNCHANGED <<nodes, schedvars, lastAnim, mainFinished, queue,
                   clock, wnow, widx, frameLog, lastFrame,
                   ui, lastCb>>

\* line 202 with a negative argument: time.sleep raises ValueError, which
\* nothing catches, and the thread dies with _running still set
WSleepRaise(t) ==
    /\ Alive(t) /\ wpc[t] = "check"
    /\ ~FrameDue(t)
    /\ SleepArg(t) < 0
    /\ Finish(t)
    /\ UNCHANGED <<nodes, running, curThread, nThreads, lastAnim,
                   mainFinished, queue, clock, frameLog,
                   lastFrame, ui, lastCb>>

\* mutant of WWake: the worker waits until the UI thread has run the closure
WWakeWaitsForDisplay(t) ==
    /\ Alive(t) /\ wpc[t] = "sleeping"
    /\ clock >= wwake[t]
    /\ mainFinished
    /\ wwake' = [wwake EXCEPT ![t] = 0]
    /\ wpc' = [wpc EXCEPT ![t] = "loop"]
    /\ UNCHANGED <<nodes, schedvars, lastAnim, mainFinished, queue,
                   clock, wnow, widx, frameLog, lastFrame,
                   ui, lastCb>>

\* time.sleep returns
WWake(t) ==
    /\ Alive(t) /\ wpc[t] = "sleeping"
    /\ clock >= wwake[t]
    /\ wwake' = [wwake EXCEPT ![t] = 0]
    /\ wpc' = [wpc EXCEPT ![t] = "loop"]
    /\ UNCHANGED <<nodes, schedvars, lastAnim, mainFinished, queue,
                   clock, wnow, widx, frameLog, lastFrame,
                   ui, lastCb>>

Worker(t) ==
    \/ WInit(t) \/ WLoopEnter(t) \/ WLoopExit(t) \/ WNow(t)
    \/ WBeginFrame(t) \/ WStepHeadless(t) \/ WMarkInFlight(t) \/ WPost(t)
    \/ WSleep(t) \/ WSleepRaise(t) \/ WWake(t)

\* ----------------------------------------------------------- the UI thread
\* The UI thread runs one handler or posted closure at a time.

\* handler op can be entered: the UI thread is idle, or op has just returned
\* and is called once more
CanEnter(op) ==
    \/ ui.op = "idle"
    \/ ui.op = op /\ ui.pc = "ret" /\ ~ui.repeat

\* the UI thread on entering handler op at position pc
Entered(op, pc) ==
    [UiIdle EXCEPT !.op = op, !.pc = pc, !.wasRunning = running,
                   !.repeat = (ui.op = op)]

\* the handler returns (or its exception leaves it)
Return ==
    /\ ui.pc \in {"ret", "raised"}
    /\ ui' = UiIdle
    /\ UNCHANGED <<nodes, schedvars, lastAnim, mainFinished, queue, clock,
                   wvars, lastCb>>

\* register_node(n), lines 105-106 (the widget tree of lines 107-112 belongs
\* to the toolkit)
register_node(n) ==
    /\ ui.op = "idle"
    /\ n \notin Range(nodes)
    /\ Len(nodes) < MaxLen
    /\ nodes' = Append(nodes, n)
    /\ UNCHANGED <<schedvars, lastAnim, mainFinished, queue, clock, wvars,
                   ui, lastCb>>

\* get_nodes(cl), lines 123-127
GetNodesCall(cl) ==
    /\ ui.op = "idle"
    /\ ui' = [Entered("get_nodes", "ret") EXCEPT !.arg = cl,
                                                 !.list = get_nodes(cl)]
    /\ UNCHANGED <<nodes, schedvars, lastAnim, mainFinished, queue, clock,
                   wvars, lastCb>>

\* ---- _on_mouse_3d and _on_key, lines 142-154
\* mutant of DispatchFrom: the loop does not return at the first HANDLED
RECURSIVE DispatchNoReturn(_, _, _, _, _)
DispatchNoReturn(ns, hook, ans, i, log) ==
    IF i > Len(ns)
    THEN [log |-> log,
          result |-> IF \E j \in 1..Len(log) : log[j].res = HANDLED
                     THEN HANDLED ELSE IGNORED]
    ELSE DispatchNoReturn(ns, hook, ans, i + 1,
                          Append(log, Entry(hook, ns[i], ans[i])))

\* ans[i] is what the handler of the i-th node answers when it is invoked
RECURSIVE DispatchFrom(_, _, _, _, _)
DispatchFrom(ns, hook, ans, i, log) ==
    IF i > Len(ns) THEN [log |-> log, result |-> IGNORED]
    ELSE LET log2 == Append(log, Entry(hook, ns[i], ans[i]))
         IN IF ans[i] = HANDLED
            THEN [log |-> log2, result |-> ans[i]]
            ELSE DispatchFrom(ns, hook, ans, i + 1, log2)

Dispatch(hook, ans) == DispatchFrom(nodes, hook, ans, 1, <<>>)

_on_mouse_3d(ans) ==
    /\ ui.op = "idle"
    /\ LET d == Dispatch("on_mouse_3d", ans)
       IN ui' = [Entered("mouse", "ret") EXCEPT !.log = d.log,
                                                !.result = d.result]
    /\ UNCHANGED <<nodes, schedvars, lastAnim, mainFinished, queue, clock,
                   wvars, lastCb>>

_on_key(ans) ==
    /\ ui.op = "idle"
    /\ LET d == Dispatch("on_key", ans)
       IN ui' = [Entered("key", "ret") EXCEPT !.log = d.log,
                                              !.result = d.result]
    /\ UNCHANGED <<nodes, schedvars, lastAnim, mainFinished, queue, clock,
                   wvars, lastCb>>

\* ---- start_computational_thread, lines 204-213
\* mutant of StartGuard: the test of _running is missing
StartGuardMissing == TRUE

\* the guard of line 206
StartGuard == ~running

\* line 206 false: nothing is done
StartNoop ==
    /\ CanEnter("start")
    /\ ~StartGuard
    /\ ui' = Entered("start", "ret")
    /\ UNCHANGED <<nodes, schedvars, lastAnim, mainFinished, queue, clock,
                   wvars, lastCb>>

\* lines 206-213: the hooks, the new Thread object, _running.set(),
\* Thread.start()
StartSpawn ==
    /\ CanEnter("start")
    /\ StartGuard
    /\ nThreads < MaxThreads
    /\ lastCb' = IF Observed \in Range(nodes) THEN "start" ELSE lastCb
    /\ nThreads' = nThreads + 1
    /\ curThread' = nThreads + 1
    /\ running' = TRUE
    /\ threads' = [threads EXCEPT ![nThreads + 1] = "alive"]
    /\ wpc' = [wpc EXCEPT ![nThreads + 1] = "init"]
    /\ ui' = [Entered("start", "ret") EXCEPT
                !.log = FanOut("on_start_computation_thread"),
                !.spawned = 1]
    /\ UNCHANGED <<nodes, lastAnim, mainFinished, queue, clock, wnow, widx,
                   wwake, frameLog, lastFrame>>

\* ---- stop_computational_thread, lines 215-220
\* mutant of StopClear: the stop also cancels the posted closures
StopClearCancels ==
    /\ CanEnter("stop")
    /\ running' = FALSE
    /\ queue' = <<>>
    /\ ui' = Entered("stop", "join")
    /\ UNCHANGED <<nodes, threads, curThread, nThreads, lastAnim,
                   mainFinished, clock, wvars, lastCb>>

\* line 216
StopClear ==
    /\ CanEnter("stop")
    /\ running' = FALSE
    /\ ui' = Entered("stop", "join")
    /\ UNCHANGED <<nodes, threads, curThread, nThreads, lastAnim,
                   mainFinished, queue, clock, wvars, lastCb>>

\* mutant of JoinReady: join() returns without waiting for the thread
JoinNoWait(t) == TRUE

\* Thread.join() can return (or raise): the thread is not running
JoinReady(t) == ~Alive(t)

\* mutant of StopJoin: the join is passed while the thread is alive
StopJoinNoWait ==
    /\ ui.op = "stop" /\ ui.pc = "join"
    /\ threads[curThread] # "unstarted"
    /\ ui' = [ui EXCEPT !.pc = "pause", !.joins = ui.joins + 1]
    /\ UNCHANGED <<nodes, schedvars, lastAnim, mainFinished, queue, clock,
                   wvars, lastCb>>

\* line 217 on a thread that was started: join() blocks while it is alive
StopJoin ==
    /\ ui.op = "stop" /\ ui.pc = "join"
    /\ threads[curThread] # "unstarted"
    /\ JoinReady(curThread)
    /\ ui' = [ui EXCEPT !.pc = "pause", !.joins = ui.joins + 1]
    /\ UNCHANGED <<nodes, schedvars, lastAnim, mainFinished, queue, clock,
                   wvars, lastCb>>

\* line 217 on the never-started thread of __init__: join() raises
\* RuntimeError and the handler is left
StopJoinRaise ==
    /\ ui.op = "stop" /\ ui.pc = "join"
    /\ threads[curThread] = "unstarted"
    /\ ui' = [ui EXCEPT !.pc = "raised"]
    /\ UNCHANGED <<nodes, schedvars, lastAnim, mainFinished, queue, clock,
                   wvars, lastCb>>

\* lines 219-220
StopPause ==
    /\ ui.op = "stop" /\ ui.pc = "pause"
    /\ lastCb' = IF Observed \in Range(nodes) THEN "pause" ELSE lastCb
    /\ ui' = [ui EXCEPT !.pc = "ret",
                        !.log = FanOut("on_pause_computational_thread")]
    /\ UNCHANGED <<nodes, schedvars, lastAnim, mainFinished, queue, clock,
                   wvars>>

\* ---- on_exit and _quit, lines 133-135 and 156-168
\* line 157: on_exit() runs and returns into _quit
on_exit ==
    /\ CanEnter("quit")
    /\ ui' = [Entered("quit", "after_on_exit") EXCEPT !.log = FanOut("on_exit")]
    /\ UNCHANGED <<nodes, schedvars, lastAnim, mainFinished, queue, clock,
                   wvars, lastCb>>

\* mutant of QuitClear: _running is left set before the join
QuitClearKeepsRunning ==
    /\ ui.op = "quit" /\ ui.pc = "after_on_exit"
    /\ running
    /\ ui' = [ui EXCEPT !.pc = "join"]
    /\ UNCHANGED <<nodes, schedvars, lastAnim, mainFinished, queue, clock,
                   wvars, lastCb>>

\* lines 159-163 with _running set: it is cleared
QuitClear ==
    /\ ui.op = "quit" /\ ui.pc = "after_on_exit"
    /\ running
    /\ running' = FALSE
    /\ ui' = [ui EXCEPT !.pc = "join"]
    /\ UNCHANGED <<nodes, threads, curThread, nThreads, lastAnim,
                   mainFinished, queue, clock, wvars, lastCb>>

\* lines 159-162 with _running not set
QuitSkip ==
    /\ ui.op = "quit" /\ ui.pc = "after_on_exit"
    /\ ~running
    /\ ui' = [ui EXCEPT !.pc = "nodes"]
    /\ UNCHANGED <<nodes, schedvars, lastAnim, mainFinished, queue, clock,
                   wvars, lastCb>>

\* line 164 (the thread was started: _running is set by start only)
QuitJoin ==
    /\ ui.op = "quit" /\ ui.pc = "join"
    /\ JoinReady(curThread)
    /\ ui' = [ui EXCEPT !.pc = IF threads[curThread] = "unstarted"
                               THEN "raised" ELSE "nodes",
                        !.joins = IF threads[curThread] = "unstarted"
                                  THEN ui.joins ELSE ui.joins + 1]
    /\ UNCHANGED <<nodes, schedvars, lastAnim, mainFinished, queue, clock,
                   wvars, lastCb>>

\* mutant of QuitFinish: the registry is not cleared
QuitFinishKeepsNodes ==
    /\ ui.op = "quit" /\ ui.pc = "nodes"
    /\ ui' = [ui EXCEPT !.pc = "ret"]
    /\ UNCHANGED <<nodes, schedvars, lastAnim, mainFinished, queue, clock,
                   wvars, lastCb>>

\* lines 166-168: the registry is cleared, the application is asked to quit
QuitFinish ==
    /\ ui.op = "quit" /\ ui.pc = "nodes"
    /\ nodes' = <<>>
    /\ lastCb' = "none"
    /\ ui' = [ui EXCEPT !.pc = "ret"]
    /\ UNCHANGED <<schedvars, lastAnim, mainFinished, queue, clock, wvars>>

\* ---- the closure display() of lines 188-192, run by the UI thread
\* for node in self._computational_nodes: if VisualNode: node.step()
RECURSIVE DisplayFrom(_, _, _)
DisplayFrom(ns, i, log) ==
    IF i > Len(ns) THEN log
    ELSE DisplayFrom(ns, i + 1,
                     IF IsVisual(ns[i])
                     THEN Append(log, Entry("step", ns[i], "-"))
                     ELSE log)

\* the UI thread takes the oldest posted closure; lines 189-191
RunTask ==
    /\ ui.op = "idle"
    /\ queue # <<>>
    /\ ui' = [Entered("display", "flag") EXCEPT
                !.task = <<Head(queue)>>,
                !.log = DisplayFrom(nodes, 1, <<>>)]
    /\ queue' = Tail(queue)
    /\ UNCHANGED <<nodes, schedvars, lastAnim, mainFinished, clock, wvars,
                   lastCb>>

\* line 192
DisplayDone ==
    /\ ui.op = "display" /\ ui.pc = "flag"
    /\ mainFinished' = TRUE
    /\ ui' = [ui EXCEPT !.pc = "ret"]
    /\ UNCHANGED <<nodes, schedvars, lastAnim, queue, clock, wvars, lastCb>>

\* ------------------------------------------------------------------ Next
Answers == [1..Len(nodes) -> EventResults]

Next ==
    \/ Tick
    \/ \E t \in ThreadIds : Worker(t)
    \/ \E n \in NodeIds : register_node(n)
    \/ \E cl \in {"HeadlessNode", "VisualNode"} : GetNodesCall(cl)
    \/ \E ans \in Answers : _on_mouse_3d(ans)
    \/ \E ans \in Answers : _on_key(ans)
    \/ StartNoop \/ StartSpawn
    \/ StopClear \/ StopJoin \/ StopJoinRaise \/ StopPause
    \/ on_exit \/ QuitClear \/ QuitSkip \/ QuitJoin \/ QuitFinish
    \/ RunTask \/ DisplayDone
    \/ Return

Spec == Init /\ [][Next]_vars

\* The documented use: every node is registered before the scheduler is
\* started for the first time.
NextRegisterFirst ==
    \/ Tick
    \/ \E t \in ThreadIds : Worker(t)
    \/ \E n \in NodeIds : nThreads = 0 /\ register_node(n)
    \/ \E cl \in {"HeadlessNode", "VisualNode"} : GetNodesCall(cl)
    \/ \E ans \in Answers : _on_mouse_3d(ans)
    \/ \E ans \in Answers : _on_key(ans)
    \/ StartNoop \/ StartSpawn
    \/ StopClear \/ StopJoin \/ StopJoinRaise \/ StopPause
    \/ on_exit \/ QuitClear \/ QuitSkip \/ QuitJoin \/ QuitFinish
    \/ RunTask \/ DisplayDone
    \/ Return

SpecRegisterFirst == Init /\ [][NextRegisterFirst]_vars

\* The same use with node steps that may raise.
NextStepRaises ==
    \/ NextRegisterFirst
    \/ \E t \in ThreadIds : WStepRaise(t)

SpecStepRaises == Init /\ [][NextStepRaises]_vars

\* What the schedulers guarantee: time passes, a thread that can run does
\* run, a handler the UI thread has entered runs to its end, and the UI
\* thread, which is idle again and again, runs a closure that is posted.
Fairness ==
    /\ WF_vars(Tick)
    /\ \A t \in ThreadIds : WF_vars(Worker(t))
    /\ WF_vars(StopJoin \/ StopJoinRaise \/ StopPause)
    /\ WF_vars(QuitClear \/ QuitSkip \/ QuitJoin \/ QuitFinish)
    /\ WF_vars(DisplayDone)
    /\ WF_vars(Return)
    /\ SF_vars(RunTask)

SpecFair == Init /\ [][Next]_vars /\ Fairness

\* The scheduler alone: the nodes are registered, the computational thread
\* is started and stopped, the posted closures run; no event arrives and the
\* window is not closed.
NextSched ==
    \/ Tick
    \/ \E t \in ThreadIds : Worker(t)
    \/ \E n \in NodeIds : nThreads = 0 /\ register_node(n)
    \/ StartNoop \/ StartSpawn
    \/ StopClear \/ StopJoin \/ StopJoinRaise \/ StopPause
    \/ RunTask \/ DisplayDone
    \/ Return

FairnessSched ==
    /\ WF_vars(Tick)
    /\ \A t \in ThreadIds : WF_vars(Worker(t))
    /\ WF_vars(StopJoin \/ StopJoinRaise \/ StopPause)

SpecFairSched == Init /\ [][NextSched]_vars /\ FairnessSched

\* ============================================================== properties
\* the hook fan-out the text describes: every registered node once, in
\* registration order
Expected(hook, ns) == [i \in 1..Len(ns) |-> Entry(hook, ns[i], "-")]

UiAt(op, pc) == ui.op = op /\ ui.pc = pc

\* Visual-step closures posted and not yet completed
Outstanding ==
    Len(queue) + (IF ui.op = "display" /\ ui.pc # "ret" THEN 1 ELSE 0)

\* C1: at any instant the UI task queue holds at most one not-yet-completed
\* Visual-node-step closure, for every interleaving and every sequence of
\* start, stop and close calls.
C1_AtMostOneTask == Outstanding <= 1

\* C2: a start while Running spawns no thread and invokes no hook; a start
\* while Stopped invokes on_start_computation_thread once per registered
\* node, in order, and starts one thread; a start directly after a start
\* does nothing; at most one worker thread is alive at any time.
C2_StartIdempotent ==
    /\ Cardinality(AliveThreads) <= 1
    /\ UiAt("start", "ret") =>
         /\ running
         /\ ui.wasRunning => ui.log = <<>> /\ ui.spawned = 0
         /\ ~ui.wasRunning =>
              /\ ui.log = Expected("on_start_computation_thread", nodes)
              /\ ui.spawned = 1
              /\ threads[curThread] \in {"alive", "dead"}
         /\ ui.repeat => ui.wasRunning

\* a second start has returned right after a first one that found the
\* scheduler Stopped with two nodes registered; the one worker is alive
C2_Witness ==
    /\ UiAt("start", "ret") /\ ui.repeat
    /\ Len(nodes) = 2
    /\ nThreads = 1 /\ AliveThreads = {1}

\* C3: stop on a Stopped scheduler (never started, or already stopped) is a
\* no-op: it raises no error and invokes on_pause_computational_thread on
\* no node.
C3_StopWhenStoppedIsNoop ==
    (ui.op = "stop" /\ ~ui.wasRunning /\ ui.pc \in {"ret", "raised"}) =>
        (ui.pc = "ret" /\ ui.log = <<>>)

\* C4: a stop on a Running scheduler passes its join only after the worker
\* thread has terminated, so every on_pause_computational_thread of that stop
\* and the return happen with no worker thread alive.
C4_StopJoinsFirst ==
    (ui.op = "stop" /\ ui.wasRunning /\ ui.pc \in {"pause", "ret"}) =>
        /\ AliveThreads = {}
        /\ threads[curThread] = "dead"
        /\ ui.joins = 1
        /\ ~running

\* a stop on a Running scheduler whose worker had produced a frame has
\* invoked the pause hooks
C4_Witness ==
    /\ UiAt("stop", "ret") /\ ui.wasRunning
    /\ ui.log # <<>>
    /\ lastFrame # <<>>

\* C5: on every node on_start_computation_thread and
\* on_pause_computational_thread strictly alternate, beginning with the
\* start hook, and once the shell has ended the worker (stop or close) the
\* node's last start hook has been matched by a pause hook.  Stated for the
\* observed node.
C5_StartPauseAlternate ==
    /\ [][(ui.op = "stop" /\ ui.pc = "pause" /\ ui'.pc = "ret"
           /\ Observed \in Range(nodes)) => lastCb = "start"]_vars
    /\ [][(ui'.op = "start" /\ ui'.spawned = 1 /\ ui # ui'
           /\ Observed \in Range(nodes)) => lastCb # "start"]_vars
    /\ []((ui.joins = 1 /\ (UiAt("stop", "ret") \/ UiAt("quit", "nodes")))
            => lastCb # "start")

\* C6 as stated: two close-handler calls in a row make exactly one on_exit
\* call per registered node and exactly one join of the worker thread, from
\* a Running and from a Stopped scheduler alike; the second call invokes no
\* hook and joins nothing.
C6_ExactlyOneJoin ==
    /\ (ui.op = "quit" /\ ~ui.repeat /\ ui.pc \in {"after_on_exit", "join", "nodes"})
          => ui.log = Expected("on_exit", nodes)
    /\ (UiAt("quit", "ret") /\ ~ui.repeat) => ui.joins = 1
    /\ (ui.op = "quit" /\ ui.repeat) => (ui.log = <<>> /\ ui.joins = 0)

\* C6 amended: two close-handler calls in a row make exactly one on_exit
\* call per registered node, and one join of the worker thread if _running
\* was set at the first call and none if it was not; the second call invokes
\* no hook and joins nothing.
C6_QuitTwice ==
    /\ (ui.op = "quit" /\ ~ui.repeat /\ ui.pc \in {"after_on_exit", "join", "nodes"})
          => ui.log = Expected("on_exit", nodes)
    /\ (UiAt("quit", "ret") /\ ~ui.repeat)
          => ui.joins = (IF ui.wasRunning THEN 1 ELSE 0)
    /\ (ui.op = "quit" /\ ui.repeat)
          => (ui.log = <<>> /\ ui.joins = 0 /\ ui.pc # "join")

\* the second of two close-handler calls has returned; the first one found
\* a started scheduler that had produced a frame
C6_Witness ==
    /\ UiAt("quit", "ret") /\ ui.repeat
    /\ threads[curThread] = "dead"
    /\ lastFrame # <<>>

\* C7 as stated: when on_exit() of the shell returns, the hooks have been
\* fanned out in registration order, the scheduler is stopped and the
\* registry is empty.
C7_OnExitStopsAndClears ==
    UiAt("quit", "after_on_exit") =>
        /\ ui.log = Expected("on_exit", nodes)
        /\ ~running
        /\ nodes = <<>>

\* C7 amended: on_exit() only fans on_exit out to every registered node in
\* registration order, leaving the scheduler and the registry as they were;
\* the close handler _quit then, if _running is set, clears it and joins the
\* worker (invoking no pause hook), and then leaves the registry empty.
C7_QuitSequence ==
    /\ UiAt("quit", "after_on_exit") =>
         /\ ui.log = Expected("on_exit", nodes)
         /\ running = ui.wasRunning
    /\ UiAt("quit", "nodes") =>
         /\ ui.log = Expected("on_exit", nodes)
         /\ ~running
         /\ AliveThreads = {}
    /\ UiAt("quit", "ret") =>
         /\ nodes = <<>>
         /\ ~running
         /\ AliveThreads = {}
         /\ \A i \in 1..Len(ui.log) : ui.log[i].hook = "on_exit"

\* the close handler has returned from a Running scheduler with two nodes
C7_Witness ==
    /\ UiAt("quit", "ret") /\ ui.wasRunning /\ ~ui.repeat
    /\ Len(ui.log) = 2
    /\ ui.joins = 1

\* C8: one mouse or keyboard event invokes the node handlers in
\* registration order and stops at the first node that answers HANDLED: no
\* later node is invoked and the result is HANDLED; if no node answers
\* HANDLED every node is invoked exactly once and the result is IGNORED.
C8_FirstResponder ==
    (ui.op \in {"mouse", "key"} /\ ui.pc = "ret") =>
        LET k == Len(ui.log) IN
        /\ k <= Len(nodes)
        /\ \A i \in 1..k :
             /\ ui.log[i].node = nodes[i]
             /\ ui.log[i].hook = IF ui.op = "mouse" THEN "on_mouse_3d"
                                 ELSE "on_key"
        /\ \A i \in 1..(k - 1) : ui.log[i].res # HANDLED
        /\ ui.result \in {HANDLED, IGNORED}
        /\ ui.result = HANDLED <=> (k > 0 /\ ui.log[k].res = HANDLED)
        /\ ui.result = IGNORED => k = Len(nodes)

\* with two nodes registered the first one answered HANDLED and the second
\* one was not invoked
C8_Witness ==
    /\ UiAt("mouse", "ret")
    /\ Len(nodes) = 2
    /\ Len(ui.log) = 1
    /\ ui.result = HANDLED

\* the nodes of s that satisfy the class test, in the order of s
Headless(s) == SelectSeq(s, LAMBDA n : ~IsVisual(n))
Visual(s) == SelectSeq(s, LAMBDA n : IsVisual(n))

\* C9: the worker's Headless step fan-out, the Visual step closure, the
\* event dispatch and get_nodes(type) all visit the nodes in registration
\* order, restricted to the nodes of the relevant kind.
C9_RegistrationOrder ==
    /\ \A t \in AliveThreads :
         wpc[t] \in {"headless", "post"} =>
             /\ widx[t] - 1 <= Len(nodes)
             /\ frameLog = Headless(SubSeq(nodes, 1, widx[t] - 1))
    /\ ui.op = "display" => ui.log = Expected("step", Visual(nodes))
    /\ ui.op \in {"mouse", "key"} =>
         \A i \in 1..Len(ui.log) : ui.log[i].node = nodes[i]
    /\ ui.op = "get_nodes" =>
         ui.list = IF ui.arg = "VisualNode" THEN Visual(nodes) ELSE nodes

\* the worker has stepped two Headless nodes that were registered against
\* the order of their identifiers
C9_Witness ==
    /\ nodes = <<"h2", "h1">>
    /\ frameLog = <<"h2", "h1">>
    /\ \E t \in AliveThreads : wpc[t] = "post"

\* C10: any two successive frames, also frames on either side of a stop
\* and a start, have timestamps at least animation_delay_time apart.
C10_FramesSpaced ==
    [][\A t \in ThreadIds :
         (wpc[t] = "check" /\ wpc'[t] = "headless" /\ lastFrame # <<>>)
             => lastFrame'[1].t - lastFrame[1].t >= animation_delay_time]_vars

\* the display closures posted and not yet finished: the queued ones and the
\* one the UI thread is executing
Tasks == Range(queue) \cup Range(ui.task)

\* C11: within a frame every Headless node has been stepped by the worker
\* when the frame's Visual-step closure is posted, the Visual steps of a
\* frame never run while its Headless steps are still in progress, and the
\* UI thread runs the closures in the order in which they were posted.
C11_HeadlessBeforeVisual ==
    /\ [](\A t \in AliveThreads :
            wpc[t] = "post" => frameLog = Headless(nodes))
    /\ [](\A task \in Tasks :
            ~(Alive(task.th) /\ wpc[task.th] \in {"headless", "post"}
              /\ wnow[task.th] = task.stamp))
    /\ [][queue' # queue =>
            \/ /\ queue # <<>>
               /\ queue' = Tail(queue)
               /\ ui'.op = "display" /\ ui'.task = <<Head(queue)>>
            \/ \E t \in AliveThreads :
                  /\ wpc[t] = "post"
                  /\ queue' = Append(queue, [th |-> t, stamp |-> wnow[t]])]_vars

\* the UI thread runs the closure of the last frame with a Visual node
\* registered before a Headless one: the Headless node was stepped first
C11_Witness ==
    /\ UiAt("display", "flag")
    /\ nodes = <<"v1", "h1">>
    /\ ui.log = Expected("step", <<"v1">>)
    /\ lastFrame # <<>> /\ ui.task[1].stamp = lastFrame[1].t
    /\ ui.task[1].th = lastFrame[1].th

\* C12: step() of a Headless-only node is invoked on the worker thread
\* only, step() of a Visual node on the UI thread only, inside a closure the
\* worker posted; no node is stepped by both threads.
C12_StepThreadAffinity ==
    /\ \A i \in 1..Len(frameLog) : ~IsVisual(frameLog[i])
    /\ \A i \in 1..Len(ui.log) :
         ui.log[i].hook = "step" =>
             /\ ui.op = "display"
             /\ ui.task # <<>>
             /\ IsVisual(ui.log[i].node)
             /\ \A j \in 1..Len(frameLog) : frameLog[j] # ui.log[i].node

\* the UI thread steps the Visual node inside a posted closure while the
\* worker of the next run has stepped the Headless node
C12_Witness ==
    /\ UiAt("display", "flag")
    /\ nodes = <<"h1", "v1">>
    /\ ui.log = Expected("step", <<"v1">>)
    /\ frameLog = <<"h1">>

\* C13: while the scheduler stays Running (and the UI thread runs the
\* posted closures) the worker keeps producing frames: after a frame with
\* timestamp k a frame with a later timestamp follows, unless the scheduler
\* is stopped.  Stated for the frames that leave room for a later one
\* before the clock ends.
C13_FramesKeepComing ==
    \A k \in 0..MaxTime :
        (running /\ lastFrame # <<>> /\ lastFrame[1].t = k
           /\ k + animation_delay_time <= MaxTime)
        ~> (~running \/ (lastFrame # <<>> /\ lastFrame[1].t > k))

\* C14: whenever the loop takes the branch without a frame, the duration
\* passed to time.sleep is _last_animation_time + animation_delay_time - now,
\* the time left until the next frame boundary, which is not negative when
\* the worker is ahead of schedule.
C14_SleepUntilBoundary ==
    [][\A t \in ThreadIds :
         (Alive(t) /\ wpc[t] = "check" /\ wpc'[t] \notin {"check", "headless"})
             => /\ SleepArg(t) = lastAnim + animation_delay_time - wnow[t]
                /\ (wnow[t] <= lastAnim + animation_delay_time
                      => SleepArg(t) >= 0)]_vars

\* s is an initial part of q
IsPrefix(s, q) == Len(s) <= Len(q) /\ SubSeq(q, 1, Len(s)) = s

\* C15: a stop cancels no posted closure: while stop_computational_thread
\* runs the queue only grows; a closure leaves the queue only when the UI
\* thread, idle again, runs it, and it then steps every Visual node and sets
\* main_thread_finished; the worker, having begun a frame, steps the nodes
\* and posts the closure before it reads the stop signal, which it does at
\* the top of its loop only.
C15_PostedTaskSurvivesStop ==
    /\ [][(ui.op = "stop" \/ ui'.op = "stop") => IsPrefix(queue, queue')]_vars
    /\ [][~IsPrefix(queue, queue') =>
            /\ ui.op = "idle" /\ ui'.op = "display"
            /\ queue' = Tail(queue)
            /\ ui'.task = <<Head(queue)>>
            /\ ui'.log = Expected("step", Visual(nodes))]_vars
    /\ [][(ui.op = "display" /\ ui'.op = "display" /\ ui' # ui) =>
            (ui'.pc = "ret" /\ mainFinished')]_vars
    /\ [][\A t \in ThreadIds :
            /\ (Alive(t) /\ wpc[t] \in {"headless", "post"}) =>
                  (threads'[t] = "alive"
                   /\ wpc'[t] \in {"headless", "post", "loop"})
            /\ (Alive(t) /\ threads'[t] # "alive" /\ wpc[t] # "check") =>
                  (wpc[t] = "loop" /\ ~running)]_vars

\* after a stop that paused the nodes the UI thread has run a closure left
\* by a worker that has ended; the Visual node was stepped and the flag set
C15_Witness ==
    /\ UiAt("display", "ret")
    /\ ~running /\ lastCb = "pause"
    /\ threads[ui.task[1].th] = "dead"
    /\ ui.log = Expected("step", <<"v1">>)
    /\ mainFinished

\* C16: when step() of a Headless node raises on the worker thread, the
\* thread ends: it produces no further frame and the closure of the frame
\* in progress is never posted; the UI thread goes on: once idle it can
\* dispatch an event and run a closure posted earlier.
C16_StepRaiseEndsWorker ==
    \A t \in ThreadIds :
        wpc[t] = "raised" =>
            /\ threads[t] = "dead"
            /\ \A task \in Tasks : ~(task.th = t /\ task.stamp = wnow[t])
            /\ (lastFrame # <<>> /\ lastFrame[1].th = t)
                  => lastFrame[1].t = wnow[t]
            /\ ui.op = "idle" =>
                  /\ ENABLED (\E ans \in Answers : _on_mouse_3d(ans))
                  /\ ENABLED (\E ans \in Answers : _on_key(ans))
                  /\ queue # <<>> => ENABLED RunTask

\* the second worker has ended in a raising step, the scheduler still
\* counts as Running, and the UI thread runs the closure the first worker
\* had posted
C16_Witness ==
    /\ wpc[2] = "raised" /\ running
    /\ UiAt("display", "flag")
    /\ ui.task[1].th = 1
    /\ ui.log # <<>>

\* C17: stop_computational_thread called on a Running scheduler eventually
\* returns: the worker waits for nothing the UI thread does, so it reaches
\* the top of its loop (or ends) and the join is passed.
C17_StopReturns ==
    (ui.op = "stop" /\ ui.wasRunning) ~> UiAt("stop", "ret")

\* the stop was called while its worker was inside a frame with a closure
\* of an earlier run still posted, and it has returned
C17_Witness ==
    /\ UiAt("stop", "ret") /\ ui.wasRunning
    /\ queue # <<>>
    /\ lastFrame # <<>> /\ lastFrame[1].th = curThread
    /\ curThread = 2

\* C18: whenever no start, stop or close call is in progress, _running is
\* set if and only if a live worker thread executes the cadence loop.
C18_RunningIffWorkerAlive ==
    ui.op \notin {"start", "stop", "quit"} =>
        (running <=> AliveThreads # {})

\* C19: once the close handler has invoked on_exit on a node, no thread
\* invokes step() on that node again.  Stated for the worker's steps made
\* while the close handler runs (after it the registry is empty).
C19_NoStepAfterOnExit ==
    [][\A t \in ThreadIds :
         (/\ ui.op = "quit"
          /\ Alive(t) /\ wpc[t] = "headless" /\ widx[t] <= Len(nodes)
          /\ frameLog' = Append(frameLog, nodes[widx[t]]))
             => \A i \in 1..Len(ui.log) :
                    ui.log[i].node # nodes[widx[t]]]_vars

\* stop_computational_thread has returned (or is about to) and no start
\* has followed
Stopped ==
    /\ ~running
    /\ ui.op \notin {"stop", "quit"} \/ UiAt("stop", "ret")

\* C20: after stop_computational_thread has returned and until the next
\* start no worker thread is alive, so no Headless node is stepped and
\* _last_animation_time is not written.
C20_QuietAfterStop ==
    /\ [](Stopped => AliveThreads = {})
    /\ [][Stopped => (lastAnim' = lastAnim /\ frameLog' = frameLog
                       /\ lastFrame' = lastFrame)]_vars

\* the stop has paused the nodes after a frame and returned; time has
\* passed since and _last_animation_time still holds that frame's time
C20_Witness ==
    /\ ui.op = "idle" /\ ~running
    /\ lastCb = "pause"
    /\ lastFrame # <<>> /\ lastAnim = lastFrame[1].t
    /\ clock > lastAnim
    /\ queue = <<>>

====
